---- MODULE Spec2Model ----
(***************************************************************************)
(* A model of src/kedro_dolt_demo/hooks.py: the KedroDolt hook class that  *)
(* checks a Dolt branch out before a kedro pipeline run, commits the       *)
(* working set after the run and checks the recorded branch out again.     *)
(*                                                                         *)
(* The Dolt server is modelled by the four things the statements of the    *)
(* class read or write: the branch list, the active branch, whether the    *)
(* working set has pending changes, and the commit log.  A statement takes *)
(* effect when it is executed.  Every connection open, statement and       *)
(* transaction commit can raise; pymysql.err.OperationalError is caught by *)
(* the log_pymysql_error decorator, any other exception propagates.        *)
(***************************************************************************)
EXTENDS Integers, Sequences, FiniteSets, TLC

\* Python's None, and the marker for `"branch" not in extra_params`.
None == "None"
NoKey == "NoKey"

\* Branch names used as constructor argument, run parameter and in the server.
BranchNames == {"master", "feature-x", "dev"}

\* Number of pipeline runs explored on one KedroDolt instance.
MaxRuns == 2

\* Exceptions a database step can raise.
OperationalError == "OperationalError"
OtherError == "OtherError"
NoExc == "none"

\* A failure injection: the step that raises and what it raises.
NoFailure == [at |-> "nowhere", kind |-> NoExc]
FailuresAt(steps) == {NoFailure} \cup [at : steps, kind : {OperationalError, OtherError}]

\* The steps each helper can reach, hence where a call of it can fail.
ActiveBranchSteps == {"connect", "active_branch"}
CheckoutSteps == {"connect", "dolt_branches", "dolt_checkout_b", "dolt_checkout", "commit"}
CommitSteps == {"connect", "dolt_status", "dolt_commit", "set_head", "commit"}

VARIABLES
    branch,           \* self._branch
    original_branch,  \* self._original_branch
    db,               \* the server: [branches, active, dirty, commits]
    pc,               \* where the pipeline runner is in its run cycle
    run_id,           \* number of the current run; run_params["run_id"] is RunId(run_id)
    param,            \* run_params["extra_params"]["branch"] of the current run, None or NoKey
    pre,              \* branch, original_branch and db when the last hook was called
    calls,            \* the helper calls of the last hook, in order, with their statements
    ret,              \* what the last hook returned
    raised            \* the exception that propagated out of the last hook, or NoExc

vars == <<branch, original_branch, db, pc, run_id, param, pre, calls, ret, raised>>

RunId(n) == "run-" \o ToString(n)

\* The reference dolt_commit returns for the n-th commit of the log.
CommitRef(n) == "c" \o ToString(n)

Stmt(op, arg) == [op |-> op, arg |-> arg]

\* The effect of one executed step on the server.
ApplyStmt(d, s) ==
    CASE s.op = "dolt_checkout_b" ->
            [d EXCEPT !.branches = @ \cup {s.arg}, !.active = s.arg]
      [] s.op = "dolt_checkout" ->
            IF s.arg \in d.branches THEN [d EXCEPT !.active = s.arg] ELSE d
      [] s.op = "dolt_commit" ->
            [d EXCEPT !.dirty = FALSE,
                      !.commits = Append(@, [ref |-> CommitRef(Len(@) + 1),
                                             on |-> d.active,
                                             message |-> s.arg])]
      [] OTHER -> d

\* Runs the steps in order against the server until the one that raises.
\* Each executed step is logged with the branch that was active when it ran.
RECURSIVE Execute(_, _, _, _)
Execute(d, steps, f, done) ==
    IF steps = <<>>
    THEN [db |-> d, stmts |-> done, exc |-> NoExc]
    ELSE IF Head(steps).op = f.at
         THEN [db |-> d, stmts |-> done, exc |-> f.kind]
         ELSE Execute(ApplyStmt(d, Head(steps)), Tail(steps), f,
                      Append(done, [op |-> Head(steps).op,
                                    arg |-> Head(steps).arg,
                                    at |-> d.active]))

\* The result of a helper call: the server afterwards, the statements that
\* ran, the exception leaving the call, whether a warning was logged, and
\* the value returned.
Call(fn, r, value) ==
    [fn |-> fn, db |-> r.db, stmts |-> r.stmts, exc |-> r.exc, warned |-> FALSE,
     ret |-> IF r.exc = NoExc THEN value ELSE None]

\* A decorator that logs the warning and lets the exception go on.
Mut_log_pymysql_error(c) ==
    IF c.exc = OperationalError THEN [c EXCEPT !.warned = TRUE] ELSE c

log_pymysql_error(c) ==
    IF c.exc = OperationalError
    THEN [c EXCEPT !.exc = NoExc, !.warned = TRUE, !.ret = None]
    ELSE c

_commit_message(id) == "Update from kedro run: " \o id

\* _commit without the test of the status row: it commits every time.
Mut__commit(d, message, f) ==
    LET res == CommitRef(Len(d.commits) + 1)
        steps == <<Stmt("connect", ""), Stmt("dolt_status", ""),
                   Stmt("dolt_commit", message), Stmt("set_head", res),
                   Stmt("commit", "")>>
    IN  Call("_commit", Execute(d, steps, f, <<>>), res)

_commit(d, message, f) ==
    LET res == CommitRef(Len(d.commits) + 1)
        steps == <<Stmt("connect", ""), Stmt("dolt_status", "")>>
                 \o (IF d.dirty
                     THEN <<Stmt("dolt_commit", message), Stmt("set_head", res)>>
                     ELSE <<>>)
                 \o <<Stmt("commit", "")>>
    IN  Call("_commit", Execute(d, steps, f, <<>>), IF d.dirty THEN res ELSE None)

_active_branch(d, f) ==
    LET steps == <<Stmt("connect", ""), Stmt("active_branch", "")>>
    IN  Call("_active_branch", Execute(d, steps, f, <<>>), d.active)

\* _checkout_branch that takes the create form whatever the query returned.
Mut__checkout_branch(d, b, f) ==
    LET steps == <<Stmt("connect", ""), Stmt("dolt_branches", b),
                   Stmt("dolt_checkout_b", b), Stmt("commit", "")>>
    IN  Call("_checkout_branch", Execute(d, steps, f, <<>>), None)

_checkout_branch(d, b, f) ==
    LET steps == <<Stmt("connect", ""), Stmt("dolt_branches", b)>>
                 \o (IF b \notin d.branches
                     THEN <<Stmt("dolt_checkout_b", b)>>
                     ELSE <<Stmt("dolt_checkout", b)>>)
                 \o <<Stmt("commit", "")>>
    IN  Call("_checkout_branch", Execute(d, steps, f, <<>>), None)

\* What the hooks keep of a helper call.
Logged(c) == [fn |-> c.fn, stmts |-> c.stmts, exc |-> c.exc, warned |-> c.warned,
              ret |-> c.ret]

Snapshot == [branch |-> branch, original_branch |-> original_branch, db |-> db]

Init ==
    /\ branch = "master"
    /\ original_branch = None
    /\ db \in [branches : {{"master"}, {"master", "dev"}},
               active : BranchNames, dirty : BOOLEAN, commits : {<<>>}]
    /\ db.active \in db.branches
    /\ pc = "start"
    /\ run_id = 0
    /\ param = NoKey
    /\ pre = [branch |-> branch, original_branch |-> None, db |-> db]
    /\ calls = <<>>
    /\ ret = None
    /\ raised = NoExc

\* The test of the key alone, without the test for None.
Mut_HasBranch(p) == p # NoKey

HasBranch(p) == p # NoKey /\ p # None

\* before_pipeline_run with the checkout ahead of the active-branch query.
Mut_before_pipeline_run(p, f1, f2) ==
    /\ pc \in {"start", "after_done"}
    /\ run_id < MaxRuns
    /\ run_id' = run_id + 1
    /\ param' = p
    /\ pre' = Snapshot
    /\ ret' = None
    /\ IF HasBranch(p)
       THEN \E c \in {log_pymysql_error(_checkout_branch(db, p, f2))} :
            \E a \in {log_pymysql_error(_active_branch(c.db, f1))} :
                /\ branch' = p
                /\ IF c.exc # NoExc
                   THEN /\ original_branch' = original_branch
                        /\ db' = c.db
                        /\ calls' = <<Logged(c)>>
                        /\ raised' = c.exc
                        /\ pc' = "before_raised"
                   ELSE /\ original_branch' = IF a.exc # NoExc THEN original_branch ELSE a.ret
                        /\ db' = a.db
                        /\ calls' = <<Logged(c), Logged(a)>>
                        /\ raised' = a.exc
                        /\ pc' = IF a.exc # NoExc THEN "before_raised" ELSE "before_done"
       ELSE /\ UNCHANGED <<branch, original_branch, db>>
            /\ calls' = <<>>
            /\ raised' = NoExc
            /\ pc' = "before_done"

before_pipeline_run(p, f1, f2) ==
    /\ pc \in {"start", "after_done"}
    /\ run_id < MaxRuns
    /\ run_id' = run_id + 1
    /\ param' = p
    /\ pre' = Snapshot
    /\ ret' = None
    /\ IF HasBranch(p)
       THEN \E a \in {log_pymysql_error(_active_branch(db, f1))} :
            \E c \in {log_pymysql_error(_checkout_branch(a.db, p, f2))} :
                /\ branch' = p
                /\ IF a.exc # NoExc
                   THEN /\ original_branch' = original_branch
                        /\ db' = a.db
                        /\ calls' = <<Logged(a)>>
                        /\ raised' = a.exc
                        /\ pc' = "before_raised"
                   ELSE /\ original_branch' = a.ret
                        /\ db' = c.db
                        /\ calls' = <<Logged(a), Logged(c)>>
                        /\ raised' = c.exc
                        /\ pc' = IF c.exc # NoExc THEN "before_raised" ELSE "before_done"
       ELSE /\ UNCHANGED <<branch, original_branch, db>>
            /\ calls' = <<>>
            /\ raised' = NoExc
            /\ pc' = "before_done"

\* The pipeline itself: it may write to the tables of the active branch.
run_pipeline(writes) ==
    /\ pc = "before_done"
    /\ pc' = "pipeline_done"
    /\ db' = [db EXCEPT !.dirty = @ \/ writes]
    /\ UNCHANGED <<branch, original_branch, run_id, param, pre, calls, ret, raised>>

after_pipeline_run(f1, f2) ==
    /\ pc = "pipeline_done"
    /\ pre' = Snapshot
    /\ UNCHANGED <<branch, original_branch, run_id, param>>
    /\ \E commit_message \in {_commit_message(RunId(run_id))} :
       \E commit \in {log_pymysql_error(_commit(db, commit_message, f1))} :
       \E c \in {log_pymysql_error(_checkout_branch(commit.db, original_branch, f2))} :
           IF commit.exc # NoExc
           THEN /\ db' = commit.db
                /\ calls' = <<Logged(commit)>>
                /\ raised' = commit.exc
                /\ ret' = None
                /\ pc' = "after_raised"
           ELSE IF original_branch # None
                THEN /\ db' = c.db
                     /\ calls' = <<Logged(commit), Logged(c)>>
                     /\ raised' = c.exc
                     /\ ret' = IF c.exc # NoExc THEN None ELSE commit.ret
                     /\ pc' = IF c.exc # NoExc THEN "after_raised" ELSE "after_done"
                ELSE /\ db' = commit.db
                     /\ calls' = <<Logged(commit)>>
                     /\ raised' = NoExc
                     /\ ret' = commit.ret
                     /\ pc' = "after_done"

\* The pipeline runner's calls.  A failure is drawn only for a helper the
\* hook is going to call.
BeforeRun ==
    \E p \in BranchNames \cup {None, NoKey} :
        \E f1 \in IF HasBranch(p) THEN FailuresAt(ActiveBranchSteps) ELSE {NoFailure} :
        \E f2 \in IF HasBranch(p) THEN FailuresAt(CheckoutSteps) ELSE {NoFailure} :
            before_pipeline_run(p, f1, f2)

RunPipeline == \E writes \in BOOLEAN : run_pipeline(writes)

AfterRun ==
    \E f1 \in FailuresAt(CommitSteps) :
    \E f2 \in IF original_branch # None THEN FailuresAt(CheckoutSteps) ELSE {NoFailure} :
        after_pipeline_run(f1, f2)

Next == BeforeRun \/ RunPipeline \/ AfterRun

Spec == Init /\ [][Next]_vars

(***************************************************************************)
(* Reading the record of the last hook.                                    *)
(***************************************************************************)

\* The statements of the last hook, over all its helper calls, in order.
RECURSIVE Flatten(_)
Flatten(cs) == IF cs = <<>> THEN <<>> ELSE Head(cs).stmts \o Flatten(Tail(cs))

AllStmts == Flatten(calls)

\* The positions in AllStmts of the statements with one of the given ops.
Positions(ops) == {i \in DOMAIN AllStmts : AllStmts[i].op \in ops}

CheckoutOps == {"dolt_checkout_b", "dolt_checkout"}

\* No step of the last hook raised anything.
NoError == raised = NoExc /\ \A i \in DOMAIN calls : ~calls[i].warned

\* The statements of a call without the branch they ran on.
Issued(c) == [i \in DOMAIN c.stmts |-> Stmt(c.stmts[i].op, c.stmts[i].arg)]

IsPrefix(s, t) == Len(s) <= Len(t) /\ \A i \in DOMAIN s : s[i] = t[i]

\* The branch the checkout call of the last hook was given.
CheckoutTarget == IF pc \in {"after_done", "after_raised"}
                  THEN pre.original_branch ELSE param

\* What a whole checkout of branch b issues, existed telling whether b was in
\* the branch list: the query, one checkout of the matching form, the commit.
WholeCheckout(b, existed) ==
    <<Stmt("connect", ""), Stmt("dolt_branches", b),
      Stmt(IF existed THEN "dolt_checkout" ELSE "dolt_checkout_b", b),
      Stmt("commit", "")>>

(***************************************************************************)
(* The claims.                                                             *)
(***************************************************************************)

\* C1: when after_pipeline_run is called with _original_branch set to A and
\* pending changes, and no database error occurs, it issues exactly one commit
\* statement, checks A out afterwards so that A is active, and returns with
\* _original_branch unset.
C1_CommitRestoreAndClear ==
    (pc = "after_done" /\ NoError /\ pre.original_branch # None /\ pre.db.dirty)
    => /\ Cardinality(Positions({"dolt_commit"})) = 1
       /\ Positions(CheckoutOps) # {}
       /\ \A k \in Positions(CheckoutOps) :
              /\ AllStmts[k].arg = pre.original_branch
              /\ \A c \in Positions({"dolt_commit"}) : c < k
       /\ db.active = pre.original_branch
       /\ original_branch = None

\* C1 without its last part: the commit, then the checkout of A.  It holds.
C1_CommitThenRestore ==
    (pc = "after_done" /\ NoError /\ pre.original_branch # None /\ pre.db.dirty)
    => /\ Cardinality(Positions({"dolt_commit"})) = 1
       /\ Positions(CheckoutOps) # {}
       /\ \A k \in Positions(CheckoutOps) :
              /\ AllStmts[k].arg = pre.original_branch
              /\ \A c \in Positions({"dolt_commit"}) : c < k
       /\ db.active = pre.original_branch

\* C2: in every state reached by hooks that returned, _original_branch is set
\* only between a before_pipeline_run that executed its checkout statement and
\* the after_pipeline_run that follows; it is unset when no run is in progress.
C2_OriginalBranchOnlyDuringSwitchedRun ==
    (raised = NoExc /\ original_branch # None)
    => /\ pc \in {"before_done", "pipeline_done"}
       /\ param \in BranchNames
       /\ Positions(CheckoutOps) # {}

\* C3: before_pipeline_run with branch B, active branch A and no database
\* error leaves B active (created if it was absent), _branch = B and
\* _original_branch = A, and issues the active-branch query before the checkout.
C3_BeforeRunSwitches ==
    (pc = "before_done" /\ param \in BranchNames /\ NoError)
    => /\ db.active = param
       /\ db.branches = pre.db.branches \cup {param}
       /\ branch = param
       /\ original_branch = pre.db.active
       /\ Cardinality(Positions({"active_branch"})) = 1
       /\ Cardinality(Positions(CheckoutOps)) = 1
       /\ \A q \in Positions({"active_branch"}) :
              \A k \in Positions(CheckoutOps) : q < k

C3_Witness ==
    /\ pc = "before_done" /\ param = "feature-x" /\ NoError
    /\ pre.db.active = "master" /\ "feature-x" \notin pre.db.branches
    /\ db.active = "feature-x"

\* C4: an OperationalError raised at the connection open or at any statement
\* of the active-branch query, the checkout or the commit does not leave the
\* hook: the failing helper returns None, the hook goes on and returns, each
\* helper is called once, and _branch and _original_branch hold what the
\* hook's own assignments gave them.
C4_OperationalErrorSwallowed ==
    /\ raised # OperationalError
    /\ (pc \in {"before_raised", "after_raised"}) <=> (raised = OtherError)
    /\ \A i \in DOMAIN calls :
           /\ calls[i].exc # OperationalError
           /\ calls[i].warned => calls[i].ret = None
    /\ (pc = "before_done" /\ param \in BranchNames)
       => /\ Len(calls) = 2
          /\ branch = param
          /\ original_branch = IF calls[1].warned THEN None ELSE pre.db.active
    /\ pc = "after_done"
       => /\ Len(calls) = IF pre.original_branch = None THEN 1 ELSE 2
          /\ branch = pre.branch
          /\ original_branch = pre.original_branch
          /\ calls[1].warned => ret = None

C4_Witness ==
    /\ pc = "after_done" /\ pre.db.dirty /\ pre.original_branch # None
    /\ calls[1].warned /\ Len(calls) = 2 /\ calls[2].warned

\* C5: with no database error, after_pipeline_run issues the commit statement
\* exactly when the status query returns a row: without pending changes it
\* issues neither the commit nor the record-head statement and returns None,
\* with pending changes it returns the reference of the one commit it made.
C5_CommitIffPendingChanges ==
    (pc = "after_done" /\ NoError)
    => /\ Cardinality(Positions({"dolt_status"})) = 1
       /\ IF pre.db.dirty
          THEN /\ Cardinality(Positions({"dolt_commit"})) = 1
               /\ Cardinality(Positions({"set_head"})) = 1
               /\ Len(db.commits) = Len(pre.db.commits) + 1
               /\ ret = db.commits[Len(db.commits)].ref
               /\ \A i \in Positions({"set_head"}) : AllStmts[i].arg = ret
          ELSE /\ Positions({"dolt_commit", "set_head"}) = {}
               /\ db.commits = pre.db.commits
               /\ ret = None

C5_Witness ==
    /\ pc = "after_done" /\ NoError /\ pre.db.dirty
    /\ ret = "c1" /\ ~db.dirty

\* C6: before_pipeline_run without a branch key, or with branch None, issues
\* no statement and leaves the server, _branch and _original_branch as they were.
C6_NoBranchNoEffect ==
    (pc = "before_done" /\ param \in {None, NoKey})
    => /\ calls = <<>>
       /\ db = pre.db
       /\ branch = pre.branch
       /\ original_branch = pre.original_branch

C6_Witness ==
    /\ pc = "before_done" /\ param = None /\ run_id = 2
    /\ pre.original_branch # None

\* C7 as stated: every call of _checkout_branch issues the existence query,
\* then exactly one checkout statement of the form matching the query's
\* answer, then the transaction commit.
C7_EveryCheckoutCallWhole ==
    \A i \in DOMAIN calls :
        calls[i].fn = "_checkout_branch"
        => Issued(calls[i]) = WholeCheckout(CheckoutTarget,
                                            CheckoutTarget \in pre.db.branches)

\* C7 as amended: a call of _checkout_branch that no database error
\* interrupts issues the existence query, then exactly one checkout statement
\* of the form matching the query's answer, then the transaction commit; an
\* interrupted call issues a prefix of that, hence at most one checkout
\* statement, of the matching form and after the query.
C7_CheckoutFormMatchesExistence ==
    \A i \in DOMAIN calls :
        calls[i].fn = "_checkout_branch"
        => LET whole == WholeCheckout(CheckoutTarget,
                                      CheckoutTarget \in pre.db.branches)
           IN  /\ IsPrefix(Issued(calls[i]), whole)
               /\ (calls[i].exc = NoExc /\ ~calls[i].warned)
                  => Issued(calls[i]) = whole

C7_Witness ==
    /\ pc = "before_done" /\ NoError /\ Len(calls) = 2
    /\ param \notin pre.db.branches
    /\ calls[2].fn = "_checkout_branch"
    /\ Issued(calls[2])[3] = Stmt("dolt_checkout_b", param)
    /\ Len(calls[2].stmts) = 4

\* C8: whenever before_pipeline_run changes the active branch from A to
\* another branch, _original_branch is A on return, swallowed errors included.
C8_SwitchRecordsOriginal ==
    (pc = "before_done" /\ db.active # pre.db.active)
    => original_branch = pre.db.active

\* C9: in a run whose before_pipeline_run was given branch B, every commit
\* statement of after_pipeline_run runs while B is the active branch.
C9_CommitLandsOnRequestedBranch ==
    (pc = "after_done" /\ param \in BranchNames)
    => \A i \in Positions({"dolt_commit"}) : AllStmts[i].at = param

\* C10: the after_pipeline_run of a run whose before_pipeline_run was given no
\* branch issues no checkout statement, whatever earlier runs did.
C10_NoCheckoutWithoutBranch ==
    (pc = "after_done" /\ param \in {None, NoKey})
    => Positions(CheckoutOps) = {}

====
